---------------------------- MODULE Spec2Model ----------------------------
(***************************************************************************)
(* A model of src/src/zoho_integration.py: the ZohoBooks client.           *)
(*                                                                         *)
(* One ZohoBooks instance holds _access_token and _token_expires_at.       *)
(* Callers run access_token (get a valid token), _refresh_access_token,    *)
(* _token_expired and get_invoices; get_invoices goes through              *)
(* _make_request, which tenacity's @retry wraps.  The authorization and    *)
(* the resource endpoints are the environment: they answer a request in    *)
(* flight with any of their possible responses.  The wall clock is `now`.  *)
(*                                                                         *)
(* Python values: None is <<>>, a value x that may be None is <<x>>; a     *)
(* dict is a function from its keys; an exception is the sequence of its   *)
(* class name followed by its __cause__ chain.                             *)
(***************************************************************************)
EXTENDS Integers, Sequences, FiniteSets, TLC

\* ---------------------------------------------------------------- bounds
\* The clock runs from 0 to MaxNow.
MaxNow == 9

\* ------------------------------------------------------ program constants
\* stop_after_attempt(3)
MaxAttempts == 3
\* wait_exponential(multiplier=1, min=4, max=10)
WaitMultiplier == 1
WaitMin == 4
WaitMax == 10
\* data.get("expires_in", 3600)
DefaultExpiresIn == 3600

\* ------------------------------------------------------------ value sets
None == <<>>
Some(x) == <<x>>

Threads == {1, 2}

\* The access_token strings the authorization endpoint may issue.
Tokens == {"", "T1", "T2"}
\* The integer expires_in values it may send.
ExpiresInValues == {-1, 0, 2}
\* An expires_in of JSON type number, or one timedelta(seconds=...) rejects
\* (null, a string).
IntJson(n) == [type |-> "int", val |-> n]
NullJson == [type |-> "null", val |-> 0]

\* The JSON objects the authorization endpoint may answer with: access_token
\* and expires_in, each present or not.
AuthPayloads ==
    LET toks == {"access_token" :> tk : tk \in Tokens} \cup {<<>>}
        exps == {"expires_in" :> IntJson(e) : e \in ExpiresInValues}
                \cup {"expires_in" :> NullJson} \cup {<<>>}
    IN {tk @@ ex : tk \in toks, ex \in exps}

\* What requests.post / raise_for_status / response.json() can come to:
\* an exception of requests, or the parsed payload.
AuthFailures == {"ConnectionError", "HTTPError", "JSONDecodeError"}
AuthResponses ==
    {[kind |-> f, data |-> <<>>] : f \in AuthFailures}
    \cup {[kind |-> "ok", data |-> d] : d \in AuthPayloads}
NoResponse == [kind |-> "none", data |-> <<>>]

\* get_invoices arguments: Optional[str].
Dates == {None, Some(""), Some("2024-01-01")}
Statuses == {None, Some(""), Some("sent")}
NoArgs == [from_date |-> None, to_date |-> None, status |-> None]

\* Invoice records and the JSON objects the resource endpoint may answer with.
Inv1 == [id |-> "1", amount |-> 100]
Inv2 == [id |-> "2", amount |-> 200]
InvoiceLists == {<<>>, <<Inv1, Inv2>>, <<Inv2, Inv1>>}
ApiBodies == {"invoices" :> l : l \in InvoiceLists}
             \cup {<<>>, "message" :> "success"}
\* requests.exceptions.RequestException and its subclasses, and what
\* requests.request may raise that is none of them.
RequestExceptions == {"ConnectionError", "HTTPError"}
ApiFailures == RequestExceptions \cup {"ValueError"}
ApiResponses ==
    {[kind |-> f, body |-> <<>>] : f \in ApiFailures}
    \cup {[kind |-> "ok", body |-> b] : b \in ApiBodies}
NoApiResponse == [kind |-> "none", body |-> <<>>]

OrganizationId == "test_org_id"

NoResult == [kind |-> "none", exc |-> <<>>, value |-> <<>>]
Returned(v) == [kind |-> "return", exc |-> <<>>, value |-> v]
Raised(e) == [kind |-> "raise", exc |-> e, value |-> <<>>]

VARIABLES
    access_token,       \* self._access_token
    token_expires_at,   \* self._token_expires_at
    now,                \* datetime.now()
    callers,            \* the threads that use the instance
    pc,                 \* each caller's position in the code
    op,                 \* the method each caller called
    args,               \* get_invoices' arguments
    params,             \* the query parameters get_invoices built
    bearer,             \* the token in the Authorization header in flight
    attempt,            \* tenacity's attempt_number
    delays,             \* the waits tenacity slept between the attempts
    fails,              \* the exception classes the failed attempts raised
    auth_resp,          \* the authorization response a refresh handles
    api_resp,           \* the resource response _make_request handles
    before,             \* (token, expiry) when the caller's refresh began
    wrote,              \* the fields the caller's refresh assigned
    result              \* what the call returned or raised

shared == <<access_token, token_expires_at>>
locals == <<pc, op, args, params, bearer, attempt, delays, fails,
            auth_resp, api_resp, before, wrote, result>>
vars == <<access_token, token_expires_at, now, callers, pc, op, args, params,
          bearer, attempt, delays, fails, auth_resp, api_resp, before, wrote,
          result>>


\* ------------------------------------------------------- pure functions

\* Python truthiness of an Optional[str]: None and "" are falsy.
Truthy(x) == x # None /\ x[1] # ""

\* A _token_expired that compares with > instead of >=.
TokenExpiredLate(expires_at, t) ==
    IF expires_at = None THEN TRUE ELSE t > expires_at[1]

\* _token_expired, lines 59-64.
TokenExpired(expires_at, t) ==
    IF expires_at = None THEN TRUE ELSE t >= expires_at[1]

\* An access_token that refreshes only once now is past the expiry.
NeedsRefreshLate(token, expires_at, t) ==
    ~Truthy(token) \/ expires_at = None \/ t > expires_at[1]

\* The condition of access_token, line 55.
NeedsRefresh(token, expires_at, t) ==
    ~Truthy(token) \/ TokenExpired(expires_at, t)

\* data.get("expires_in", 3600), line 89.
ExpiresIn(data) ==
    IF "expires_in" \in DOMAIN data THEN data["expires_in"]
    ELSE IntJson(DefaultExpiresIn)

\* timedelta(seconds=x) accepts a number and raises TypeError otherwise.
TimedeltaAccepts(x) == x.type = "int"

\* A refresh that always uses the default lifetime.
NewExpiryDefault(t, data) == t + DefaultExpiresIn

\* datetime.now() + timedelta(seconds=...), lines 88-90.
NewExpiry(t, data) == t + ExpiresIn(data).val

\* A get_invoices that tests its arguments with "is not None".
InvoiceParamsNotNone(a) ==
    ("organization_id" :> OrganizationId)
    @@ (IF a.from_date # None THEN "date_start" :> a.from_date[1] ELSE <<>>)
    @@ (IF a.to_date # None THEN "date_end" :> a.to_date[1] ELSE <<>>)
    @@ (IF a.status # None THEN "status" :> a.status[1] ELSE <<>>)

\* The params dict of get_invoices, lines 164-174.
InvoiceParams(a) ==
    ("organization_id" :> OrganizationId)
    @@ (IF Truthy(a.from_date) THEN "date_start" :> a.from_date[1] ELSE <<>>)
    @@ (IF Truthy(a.to_date) THEN "date_end" :> a.to_date[1] ELSE <<>>)
    @@ (IF Truthy(a.status) THEN "status" :> a.status[1] ELSE <<>>)

\* A get_invoices that reads the key "invoice".
InvoicesOfWrongKey(body) ==
    IF "invoice" \in DOMAIN body THEN body["invoice"] ELSE <<>>

\* response.get("invoices", []), line 183.
InvoicesOf(body) ==
    IF "invoices" \in DOMAIN body THEN body["invoices"] ELSE <<>>

\* A refresh that raises the API error class.
AuthErrorAsAPIError(cause) == <<"ZohoAPIError", cause>>

\* The except clause of _refresh_access_token, lines 94-96: every Exception
\* becomes ZohoAuthError from e.
AuthError(cause) == <<"ZohoAuthError", cause>>

\* The except clause of _make_request, lines 143-145: a RequestException
\* becomes ZohoAPIError from e; any other exception passes through.
Translate(exc) ==
    IF exc[1] \in RequestExceptions THEN <<"ZohoAPIError">> \o exc ELSE exc

\* A stop condition that lets one more attempt through.
StopAfterAttemptLate(n) == n > MaxAttempts

\* stop_after_attempt(3), line 99.
StopAfterAttempt(n) == n >= MaxAttempts

RECURSIVE Pow(_, _)
Pow(b, n) == IF n = 0 THEN 1 ELSE b * Pow(b, n - 1)

Max(a, b) == IF a >= b THEN a ELSE b
Min(a, b) == IF a <= b THEN a ELSE b

\* A wait without the floor min=4.
WaitExponentialNoFloor(n) == Min(WaitMultiplier * Pow(2, n - 1), WaitMax)

\* wait_exponential(multiplier=1, min=4, max=10), line 100: tenacity waits
\* max(max(0, min), min(multiplier * 2 ** (attempt_number - 1), max)) after
\* attempt attempt_number failed.  (tenacity before 8.0 raises 2 to
\* attempt_number; with these settings the first two waits are the same.)
WaitExponential(n) ==
    Max(Max(0, WaitMin), Min(WaitMultiplier * Pow(2, n - 1), WaitMax))

\* What tenacity raises when the last attempt failed with exc: reraise is
\* not set, so RetryError from the attempt's exception (line 98).
RetryExhausted(exc) == <<"RetryError">> \o exc

\* ------------------------------------------------------------- the state

\* The instance after __init__ (lines 30-34), used by one caller at a time:
\* callers is the set of threads that take steps.
Init ==
    /\ access_token = None
    /\ token_expires_at = None
    /\ now = 0
    /\ callers = {1}
    /\ pc = [t \in Threads |-> "idle"]
    /\ op = [t \in Threads |-> "none"]
    /\ args = [t \in Threads |-> NoArgs]
    /\ params = [t \in Threads |-> <<>>]
    /\ bearer = [t \in Threads |-> None]
    /\ attempt = [t \in Threads |-> 0]
    /\ delays = [t \in Threads |-> <<>>]
    /\ fails = [t \in Threads |-> {}]
    /\ auth_resp = [t \in Threads |-> NoResponse]
    /\ api_resp = [t \in Threads |-> NoApiResponse]
    /\ before = [t \in Threads |-> <<>>]
    /\ wrote = [t \in Threads |-> {}]
    /\ result = [t \in Threads |-> NoResult]

\* An exception exc leaves the code the caller t is in.  In get_invoices it
\* is inside _make_request's try: the except clause translates it (lines
\* 143-145) and tenacity either gives up (RetryError) or schedules the next
\* attempt (lines 98-101).  In access_token and _refresh_access_token it
\* reaches the caller as it is.
Fail(t, exc) ==
    IF op[t] = "get_invoices"
    THEN LET e == Translate(exc) IN
         /\ fails' = [fails EXCEPT ![t] = @ \cup {e[1]}]
         /\ bearer' = [bearer EXCEPT ![t] = None]
         /\ IF StopAfterAttempt(attempt[t])
            THEN /\ pc' = [pc EXCEPT ![t] = "done"]
                 /\ result' = [result EXCEPT ![t] = Raised(RetryExhausted(e))]
                 /\ args' = [args EXCEPT ![t] = NoArgs]
                 /\ params' = [params EXCEPT ![t] = <<>>]
            ELSE /\ pc' = [pc EXCEPT ![t] = "wait"]
                 /\ UNCHANGED <<result, args, params>>
    ELSE /\ pc' = [pc EXCEPT ![t] = "done"]
         /\ result' = [result EXCEPT ![t] = Raised(exc)]
         /\ UNCHANGED <<fails, bearer, args, params>>

\* get_invoices(from_date, to_date, status), lines 147-181: build the query
\* parameters and enter _make_request's first attempt, which starts by
\* reading self.access_token (line 126).
CallGetInvoices(t) ==
    /\ pc[t] = "idle"
    /\ \E f \in Dates, u \in Dates, s \in Statuses :
         LET a == [from_date |-> f, to_date |-> u, status |-> s] IN
         /\ args' = [args EXCEPT ![t] = a]
         /\ params' = [params EXCEPT ![t] = InvoiceParams(a)]
    /\ op' = [op EXCEPT ![t] = "get_invoices"]
    /\ attempt' = [attempt EXCEPT ![t] = 1]
    /\ pc' = [pc EXCEPT ![t] = "check"]
    /\ UNCHANGED <<shared, now, callers, bearer, delays, fails, auth_resp,
                   api_resp, before, wrote, result>>

\* A caller reads the access_token property, lines 44-57.
CallAccessToken(t) ==
    /\ pc[t] = "idle"
    /\ op' = [op EXCEPT ![t] = "access_token"]
    /\ pc' = [pc EXCEPT ![t] = "check"]
    /\ UNCHANGED <<shared, now, callers, args, params, bearer, attempt, delays,
                   fails, auth_resp, api_resp, before, wrote, result>>

\* A caller calls _refresh_access_token, lines 66-82: the token request
\* leaves for the authorization endpoint.
CallRefresh(t) ==
    /\ pc[t] = "idle"
    /\ op' = [op EXCEPT ![t] = "refresh"]
    /\ pc' = [pc EXCEPT ![t] = "rf_post"]
    /\ before' = [before EXCEPT ![t] = <<access_token, token_expires_at>>]
    /\ UNCHANGED <<shared, now, callers, args, params, bearer, attempt, delays,
                   fails, auth_resp, api_resp, wrote, result>>

\* A caller reads the _token_expired property, lines 59-64.
CallTokenExpired(t) ==
    /\ pc[t] = "idle"
    /\ op' = [op EXCEPT ![t] = "token_expired"]
    /\ pc' = [pc EXCEPT ![t] = "done"]
    /\ result' = [result EXCEPT ![t] =
                    Returned(TokenExpired(token_expires_at, now))]
    /\ UNCHANGED <<shared, now, callers, args, params, bearer, attempt, delays,
                   fails, auth_resp, api_resp, before, wrote>>

\* access_token, lines 55-56: refresh when there is no token or it expired.
AccessTokenCheck(t) ==
    /\ pc[t] = "check"
    /\ wrote' = [wrote EXCEPT ![t] = {}]
    /\ auth_resp' = [auth_resp EXCEPT ![t] = NoResponse]
    /\ api_resp' = [api_resp EXCEPT ![t] = NoApiResponse]
    /\ IF NeedsRefresh(access_token, token_expires_at, now)
       THEN /\ pc' = [pc EXCEPT ![t] = "rf_post"]
            /\ before' = [before EXCEPT ![t] =
                            <<access_token, token_expires_at>>]
       ELSE /\ pc' = [pc EXCEPT ![t] = "ret_token"]
            /\ before' = [before EXCEPT ![t] = <<>>]
    /\ UNCHANGED <<shared, now, callers, op, args, params, bearer, attempt,
                   delays, fails, result>>

\* The authorization endpoint answers requests.post, lines 74-85.
AuthRespond(t) ==
    /\ pc[t] = "rf_post"
    /\ \E r \in AuthResponses : auth_resp' = [auth_resp EXCEPT ![t] = r]
    /\ pc' = [pc EXCEPT ![t] = "rf_resp"]
    /\ UNCHANGED <<shared, now, callers, op, args, params, bearer, attempt,
                   delays, fails, api_resp, before, wrote, result>>

\* _refresh_access_token, lines 84-87 and 94-96: raise_for_status, json(),
\* and the assignment of self._access_token.
RefreshStoreToken(t) ==
    /\ pc[t] = "rf_resp"
    /\ LET r == auth_resp[t] IN
       IF r.kind # "ok"
       THEN /\ Fail(t, AuthError(r.kind))
            /\ UNCHANGED <<shared, wrote>>
       ELSE IF "access_token" \notin DOMAIN r.data
       THEN /\ Fail(t, AuthError("KeyError"))
            /\ UNCHANGED <<shared, wrote>>
       ELSE /\ access_token' = Some(r.data["access_token"])
            /\ wrote' = [wrote EXCEPT ![t] = {"token"}]
            /\ pc' = [pc EXCEPT ![t] = "rf_expiry"]
            /\ UNCHANGED <<token_expires_at, fails, bearer, args, params,
                           result>>
    /\ UNCHANGED <<now, callers, op, attempt, delays, auth_resp, api_resp,
                   before>>

\* _refresh_access_token, lines 88-96: the assignment of
\* self._token_expires_at, and the return.
RefreshStoreExpiry(t) ==
    /\ pc[t] = "rf_expiry"
    /\ LET data == auth_resp[t].data IN
       IF ~TimedeltaAccepts(ExpiresIn(data))
       THEN /\ Fail(t, AuthError("TypeError"))
            /\ UNCHANGED <<shared, wrote>>
       ELSE /\ token_expires_at' = Some(NewExpiry(now, data))
            /\ wrote' = [wrote EXCEPT ![t] = {"token", "expiry"}]
            /\ IF op[t] = "refresh"
               THEN /\ pc' = [pc EXCEPT ![t] = "done"]
                    /\ result' = [result EXCEPT ![t] = Returned(None)]
               ELSE /\ pc' = [pc EXCEPT ![t] = "ret_token"]
                    /\ UNCHANGED result
            /\ UNCHANGED <<access_token, fails, bearer, args, params>>
    /\ UNCHANGED <<now, callers, op, attempt, delays, auth_resp, api_resp,
                   before>>

\* access_token, line 57: return self._access_token.  In _make_request the
\* value goes into the Authorization header and the request leaves for the
\* resource endpoint (lines 125-139).
AccessTokenReturn(t) ==
    /\ pc[t] = "ret_token"
    /\ IF op[t] = "access_token"
       THEN /\ pc' = [pc EXCEPT ![t] = "done"]
            /\ result' = [result EXCEPT ![t] = Returned(access_token)]
            /\ UNCHANGED <<bearer, auth_resp, before>>
       ELSE /\ pc' = [pc EXCEPT ![t] = "await"]
            /\ bearer' = [bearer EXCEPT ![t] = access_token]
            /\ auth_resp' = [auth_resp EXCEPT ![t] = NoResponse]
            /\ before' = [before EXCEPT ![t] = <<>>]
            /\ UNCHANGED result
    /\ UNCHANGED <<shared, now, callers, op, args, params, attempt, delays,
                   fails, api_resp, wrote>>

\* The resource endpoint answers requests.request, lines 132-138.
ApiRespond(t) ==
    /\ pc[t] = "await"
    /\ \E r \in ApiResponses : api_resp' = [api_resp EXCEPT ![t] = r]
    /\ pc' = [pc EXCEPT ![t] = "got"]
    /\ UNCHANGED <<shared, now, callers, op, args, params, bearer, attempt,
                   delays, fails, auth_resp, before, wrote, result>>

\* _make_request, lines 140-145, and get_invoices' return, line 183.
HandleResponse(t) ==
    /\ pc[t] = "got"
    /\ LET r == api_resp[t] IN
       IF r.kind = "ok"
       THEN /\ pc' = [pc EXCEPT ![t] = "done"]
            /\ result' = [result EXCEPT ![t] = Returned(InvoicesOf(r.body))]
            /\ args' = [args EXCEPT ![t] = NoArgs]
            /\ params' = [params EXCEPT ![t] = <<>>]
            /\ bearer' = [bearer EXCEPT ![t] = None]
            /\ UNCHANGED fails
       ELSE Fail(t, <<r.kind>>)
    /\ UNCHANGED <<shared, now, callers, op, attempt, delays, auth_resp,
                   api_resp, before, wrote>>

\* A retry that sends the request again with the headers it has.
RetryEntryReuse == "await"

\* Where an attempt begins: tenacity calls the decorated function again, and
\* its body starts by reading self.access_token (lines 102, 124-126).
RetryEntry == "check"

\* tenacity sleeps wait_exponential's delay and starts the next attempt
\* (lines 98-101).
Sleep(t) ==
    /\ pc[t] = "wait"
    /\ LET d == WaitExponential(attempt[t]) IN
       /\ now + d <= MaxNow
       /\ now' = now + d
       /\ delays' = [delays EXCEPT ![t] = Append(@, d)]
    /\ attempt' = [attempt EXCEPT ![t] = @ + 1]
    /\ pc' = [pc EXCEPT ![t] = RetryEntry]
    /\ UNCHANGED <<shared, callers, op, args, params, bearer, fails,
                   auth_resp, api_resp, before, wrote, result>>

\* The caller takes the result; its next call starts afresh.
Return(t) ==
    /\ pc[t] = "done"
    /\ pc' = [pc EXCEPT ![t] = "idle"]
    /\ op' = [op EXCEPT ![t] = "none"]
    /\ attempt' = [attempt EXCEPT ![t] = 0]
    /\ delays' = [delays EXCEPT ![t] = <<>>]
    /\ fails' = [fails EXCEPT ![t] = {}]
    /\ auth_resp' = [auth_resp EXCEPT ![t] = NoResponse]
    /\ api_resp' = [api_resp EXCEPT ![t] = NoApiResponse]
    /\ before' = [before EXCEPT ![t] = <<>>]
    /\ wrote' = [wrote EXCEPT ![t] = {}]
    /\ result' = [result EXCEPT ![t] = NoResult]
    /\ UNCHANGED <<shared, now, callers, args, params, bearer>>

\* Time passes.
Tick ==
    /\ now < MaxNow
    /\ now' = now + 1
    /\ UNCHANGED <<shared, callers, locals>>

Next ==
    \/ \E t \in callers : CallGetInvoices(t)
    \/ \E t \in callers : CallAccessToken(t)
    \/ \E t \in callers : CallRefresh(t)
    \/ \E t \in callers : CallTokenExpired(t)
    \/ \E t \in callers : AccessTokenCheck(t)
    \/ \E t \in callers : AuthRespond(t)
    \/ \E t \in callers : RefreshStoreToken(t)
    \/ \E t \in callers : RefreshStoreExpiry(t)
    \/ \E t \in callers : AccessTokenReturn(t)
    \/ \E t \in callers : ApiRespond(t)
    \/ \E t \in callers : HandleResponse(t)
    \/ \E t \in callers : Sleep(t)
    \/ \E t \in callers : Return(t)
    \/ Tick

Spec == Init /\ [][Next]_vars

\* ------------------------------------------------------------ the claims

Both == {"token", "expiry"}

\* C1: when every attempt of an Executor call fails by a transport
\* exception or an HTTP error status, the error that reaches the caller is
\* ZohoAPIError wrapping the last underlying cause, and no other error kind.
C1_ExhaustedRaisesAPIError ==
    \A t \in callers :
        (/\ pc[t] = "done"
         /\ op[t] = "get_invoices"
         /\ result[t].kind = "raise"
         /\ fails[t] = {"ZohoAPIError"})
        => result[t].exc = <<"ZohoAPIError", api_resp[t].kind>>

\* C2: one Executor call issues at most 3 attempts; when every attempt
\* fails it has issued exactly 3 before it raises (with 2 waits between
\* them), and after an attempt that succeeded no further attempt is issued:
\* the call is over, and no retry is ever scheduled on a successful response.
C2_AtMostThreeAttempts ==
    \A t \in callers :
        /\ attempt[t] <= 3
        /\ (pc[t] = "wait" => attempt[t] < 3 /\ api_resp[t].kind # "ok")
        /\ (pc[t] = "done" /\ op[t] = "get_invoices" /\ result[t].kind = "raise"
            => attempt[t] = 3 /\ Len(delays[t]) = 2)
        /\ (api_resp[t].kind = "ok" => pc[t] \in {"got", "done"})
        /\ (pc[t] = "done" /\ api_resp[t].kind = "ok"
            => result[t].kind = "return" /\ Len(delays[t]) = attempt[t] - 1)

C2_Witness ==
    \E t \in callers :
        /\ pc[t] = "done" /\ op[t] = "get_invoices"
        /\ result[t].kind = "raise" /\ attempt[t] = 3
        /\ fails[t] = {"ZohoAPIError"}

\* C3: access_token goes from its check to its return without a refresh
\* only when a token is held and its expiry is later than now; otherwise it
\* reaches its return only after a refresh that stored both fields, and the
\* token it then returns is the one that refresh stored.
C3_RefreshBeforeReturn ==
    [][\A t \in callers :
        /\ (pc[t] # "ret_token" /\ pc'[t] = "ret_token")
           => \/ /\ pc[t] = "check"
                 /\ access_token # None
                 /\ token_expires_at # None
                 /\ token_expires_at[1] > now
              \/ /\ pc[t] = "rf_expiry"
                 /\ auth_resp[t].kind = "ok"
                 /\ wrote'[t] = Both
        /\ (pc[t] = "ret_token" /\ op[t] = "access_token" /\ pc'[t] = "done"
            /\ wrote[t] # {})
           => result'[t] = Returned(Some(auth_resp[t].data["access_token"]))
      ]_vars

C3_Witness ==
    \E t \in callers :
        /\ pc[t] = "done" /\ op[t] = "access_token"
        /\ before[t] # <<>> /\ before[t][1] = Some("T1")
        /\ before[t][2] # None /\ before[t][2][1] <= now
        /\ result[t] = Returned(Some("T2"))

\* C4: _token_expired returns True when no expiry is set, True when
\* expiry <= now, and False when expiry > now.
C4_TokenExpired ==
    [][\A t \in callers :
        (pc[t] = "idle" /\ op'[t] = "token_expired")
        => LET r == result'[t] IN
           /\ r.kind = "return"
           /\ (token_expires_at = None => r.value = TRUE)
           /\ (token_expires_at # None /\ token_expires_at[1] <= now
               => r.value = TRUE)
           /\ (token_expires_at # None /\ token_expires_at[1] > now
               => r.value = FALSE)
      ]_vars

C4_Witness ==
    \E t \in callers :
        /\ pc[t] = "done" /\ op[t] = "token_expired"
        /\ token_expires_at = Some(now)
        /\ result[t].value = TRUE

\* C5: a refresh that completes on a response with access_token T and
\* expires_in E leaves the stored token T and the stored expiry now + E, and
\* now + 3600 when the response has no expires_in.
C5_RefreshStores ==
    [][\A t \in callers :
        (/\ pc[t] = "rf_expiry"
         /\ \/ pc'[t] = "ret_token"
            \/ pc'[t] = "done" /\ result'[t].kind = "return")
        => LET d == auth_resp[t].data IN
           /\ access_token' = Some(d["access_token"])
           /\ token_expires_at' =
                Some(now + (IF "expires_in" \in DOMAIN d
                            THEN d["expires_in"].val ELSE 3600))
      ]_vars

C5_Witness ==
    \E t \in callers :
        /\ pc[t] = "done" /\ op[t] = "refresh" /\ result[t].kind = "return"
        /\ now > 0
        /\ "expires_in" \notin DOMAIN auth_resp[t].data
        /\ access_token = Some("T2")
        /\ token_expires_at = Some(now + 3600)

\* A refresh that failed by a transport failure, a non-2xx response or a
\* payload without access_token.
RefreshFailedEarly(t) ==
    /\ pc[t] \notin {"rf_post", "rf_resp"}
    /\ \/ auth_resp[t].kind \in {"ConnectionError", "HTTPError"}
       \/ /\ auth_resp[t].kind = "ok"
          /\ "access_token" \notin DOMAIN auth_resp[t].data

\* C6: after a refresh failed by a transport failure, a non-2xx response or
\* a payload without access_token, the stored token and expiry are what they
\* were when the refresh began and nothing was assigned; the caller of
\* access_token or _refresh_access_token gets ZohoAuthError from the cause.
C6_FailedRefreshKeepsToken ==
    \A t \in callers :
        RefreshFailedEarly(t)
        => /\ <<access_token, token_expires_at>> = before[t]
           /\ wrote[t] = {}
           /\ op[t] \in {"refresh", "access_token"}
              => /\ pc[t] = "done"
                 /\ result[t] = Raised(<<"ZohoAuthError",
                        IF auth_resp[t].kind = "ok" THEN "KeyError"
                        ELSE auth_resp[t].kind>>)

C6_Witness ==
    \E t \in callers :
        /\ RefreshFailedEarly(t)
        /\ op[t] = "access_token"
        /\ auth_resp[t].kind = "HTTPError"
        /\ access_token = Some("T1")
        /\ token_expires_at # None /\ token_expires_at[1] <= now

\* C7: outside the two assignments of a refresh, a refresh has assigned
\* either both the token and the expiry or neither, whatever the response.
C7_NeverPartiallyUpdated ==
    \A t \in callers :
        pc[t] # "rf_expiry" => wrote[t] \in {{}, Both}

\* What the claim expects get_invoices to send for an argument a under the
\* query parameter key k.
SentAs(p, k, a, provided) ==
    IF provided THEN k \in DOMAIN p /\ p[k] = a[1] ELSE k \notin DOMAIN p

\* C8 as stated: the request in flight carries organization_id, and
\* date_start, date_end and status exactly when from_date, to_date and
\* status are provided (not None), with the value given, and nothing else.
C8_SentWhenProvided ==
    \A t \in callers :
        pc[t] = "await"
        => LET p == params[t]
               a == args[t] IN
           /\ DOMAIN p \subseteq
                {"organization_id", "date_start", "date_end", "status"}
           /\ "organization_id" \in DOMAIN p
           /\ p["organization_id"] = OrganizationId
           /\ SentAs(p, "date_start", a.from_date, a.from_date # None)
           /\ SentAs(p, "date_end", a.to_date, a.to_date # None)
           /\ SentAs(p, "status", a.status, a.status # None)

\* C8 as amended: ... exactly when the argument is provided and is not the
\* empty string.
C8_SentWhenNonEmpty ==
    \A t \in callers :
        pc[t] = "await"
        => LET p == params[t]
               a == args[t] IN
           /\ DOMAIN p \subseteq
                {"organization_id", "date_start", "date_end", "status"}
           /\ "organization_id" \in DOMAIN p
           /\ p["organization_id"] = OrganizationId
           /\ SentAs(p, "date_start", a.from_date,
                     a.from_date # None /\ a.from_date # Some(""))
           /\ SentAs(p, "date_end", a.to_date,
                     a.to_date # None /\ a.to_date # Some(""))
           /\ SentAs(p, "status", a.status,
                     a.status # None /\ a.status # Some(""))

C8_Witness ==
    \E t \in callers :
        /\ pc[t] = "await"
        /\ args[t] = [from_date |-> Some("2024-01-01"), to_date |-> Some(""),
                      status |-> None]
        /\ DOMAIN params[t] = {"organization_id", "date_start"}

\* C9: get_invoices returns the list under the invoices key of the parsed
\* response as it is, and the empty list, without an error, when the
\* response has no invoices key.
C9_ReturnsInvoices ==
    \A t \in callers :
        (pc[t] = "done" /\ op[t] = "get_invoices" /\ api_resp[t].kind = "ok")
        => LET b == api_resp[t].body IN
           /\ result[t].kind = "return"
           /\ "invoices" \in DOMAIN b => result[t].value = b["invoices"]
           /\ "invoices" \notin DOMAIN b => result[t].value = <<>>

C9_Witness ==
    \E t \in callers :
        /\ pc[t] = "done" /\ op[t] = "get_invoices"
        /\ api_resp[t].kind = "ok"
        /\ "invoices" \in DOMAIN api_resp[t].body
        /\ result[t].value = <<Inv1, Inv2>>

\* C10 as stated: every delay between attempts lies in [4, 10], the first
\* is 4 and the second is larger than the first: 8.
C10_DelaysGrow ==
    \A t \in callers :
        /\ \A i \in DOMAIN delays[t] : delays[t][i] >= 4 /\ delays[t][i] <= 10
        /\ Len(delays[t]) >= 1 => delays[t][1] = 4
        /\ Len(delays[t]) >= 2
           => delays[t][2] > delays[t][1] /\ delays[t][2] = 8

\* C10 as amended: every delay between attempts lies in [4, 10]; the first
\* is 4 and the second is 4 as well.
C10_DelaysAtFloor ==
    \A t \in callers :
        /\ \A i \in DOMAIN delays[t] : delays[t][i] >= 4 /\ delays[t][i] <= 10
        /\ Len(delays[t]) >= 1 => delays[t][1] = 4
        /\ Len(delays[t]) >= 2 => delays[t][2] = 4

C10_Witness ==
    \E t \in callers : pc[t] = "check" /\ attempt[t] = 3 /\ Len(delays[t]) = 2

\* C11: when the refresh fails in every attempt of an Executor call made
\* with no valid token held, the error that reaches the caller of
\* get_invoices is ZohoAuthError from the cause of the last failed refresh,
\* and no other error kind.
C11_RefreshFailureSurfaces ==
    \A t \in callers :
        (/\ pc[t] = "done"
         /\ op[t] = "get_invoices"
         /\ result[t].kind = "raise"
         /\ fails[t] = {"ZohoAuthError"})
        => /\ result[t].exc[1] = "ZohoAuthError"
           /\ Len(result[t].exc) = 2

\* ----------------------------------------------------- a shared instance

\* One instance used by two threads at once, each reading access_token
\* (lines 44-57): nothing in the class serializes them.  The threads race
\* within one instant: the clock stands still.
InitShared ==
    /\ access_token = None
    /\ token_expires_at = None
    /\ now = 0
    /\ callers = Threads
    /\ pc = [t \in Threads |-> "idle"]
    /\ op = [t \in Threads |-> "none"]
    /\ args = [t \in Threads |-> NoArgs]
    /\ params = [t \in Threads |-> <<>>]
    /\ bearer = [t \in Threads |-> None]
    /\ attempt = [t \in Threads |-> 0]
    /\ delays = [t \in Threads |-> <<>>]
    /\ fails = [t \in Threads |-> {}]
    /\ auth_resp = [t \in Threads |-> NoResponse]
    /\ api_resp = [t \in Threads |-> NoApiResponse]
    /\ before = [t \in Threads |-> <<>>]
    /\ wrote = [t \in Threads |-> {}]
    /\ result = [t \in Threads |-> NoResult]

NextShared ==
    \/ \E t \in callers : CallAccessToken(t)
    \/ \E t \in callers : AccessTokenCheck(t)
    \/ \E t \in callers : AuthRespond(t)
    \/ \E t \in callers : RefreshStoreToken(t)
    \/ \E t \in callers : RefreshStoreExpiry(t)
    \/ \E t \in callers : AccessTokenReturn(t)
    \/ \E t \in callers : Return(t)

SpecShared == InitShared /\ [][NextShared]_vars

InRefresh(t) == pc[t] \in {"rf_post", "rf_resp", "rf_expiry"}

\* C12: on a shared instance, two callers that found the same token state
\* expired are never both inside a refresh: at most one refresh request is
\* sent for one expiry event.
C12_OneRefreshPerExpiry ==
    \A t \in callers : \A u \in callers \ {t} :
        ~(InRefresh(t) /\ InRefresh(u) /\ before[t] = before[u])

\* C13: on a shared instance, a caller that reads the token state (the
\* check of access_token, line 55) while another caller is between the two
\* assignments of its refresh still reads the pair that refresh found: it
\* never reads the new token with the old expiry.
C13_NoHalfWrittenRead ==
    [][\A u \in callers :
        (pc[u] = "check" /\ pc'[u] # "check")
        => \A t \in callers \ {u} :
              pc[t] = "rf_expiry"
              => <<access_token, token_expires_at>> = before[t]
      ]_vars

\* C14: every attempt of an Executor call starts with access_token's check:
\* a retry goes from its wait to the check, a request leaves only with the
\* token access_token returned in that attempt, and a retry whose check
\* finds the held token expired refreshes before it sends its request.
C14_CheckOnEveryAttempt ==
    [][\A t \in callers :
        /\ (pc[t] = "wait" /\ pc'[t] # "wait") => pc'[t] = "check"
        /\ (pc[t] # "await" /\ pc'[t] = "await")
           => pc[t] = "ret_token" /\ bearer'[t] = access_token
        /\ (/\ pc[t] = "check" /\ pc'[t] # "check"
            /\ op[t] = "get_invoices" /\ attempt[t] >= 2
            /\ \/ token_expires_at = None
               \/ token_expires_at[1] <= now)
           => pc'[t] = "rf_post"
      ]_vars

C14_Witness ==
    \E t \in callers :
        /\ pc[t] = "rf_post" /\ op[t] = "get_invoices" /\ attempt[t] = 2
        /\ fails[t] = {"ZohoAPIError"}
        /\ before[t][1] = Some("T1")
        /\ before[t][2] # None
        /\ before[t][2][1] <= now /\ before[t][2][1] > now - 4

\* C15: whenever _make_request takes the token from access_token and sends
\* its request with it, the stored expiry is set and strictly later than
\* now, whatever expires_in the accepted authorization response carried.
C15_AttachedTokenValid ==
    [][\A t \in callers :
        (pc[t] = "ret_token" /\ pc'[t] = "await")
        => token_expires_at # None /\ token_expires_at[1] > now
      ]_vars

\* The caller's last refresh ended by raising ZohoAuthError.
RefreshRaised(t) ==
    /\ before[t] # <<>>
    /\ pc[t] \in {"wait", "done"}
    /\ op[t] \in {"refresh", "access_token"} => result[t].kind = "raise"

\* An attempt of get_invoices whose check finds, or found, the held token
\* valid (expiry > now), up to the handling of the resource response.
AttemptWithValidToken(t) ==
    /\ op[t] = "get_invoices"
    /\ \/ /\ pc[t] = "check"
          /\ Truthy(access_token)
          /\ token_expires_at # None
          /\ token_expires_at[1] > now
       \/ pc[t] \in {"ret_token", "await", "got"} /\ wrote[t] = {}

\* C16: the stored token and expiry change only in a successful refresh: a
\* refresh that raised leaves them as it found them, and an attempt of
\* get_invoices whose check finds the held token valid sends no request to
\* the authorization endpoint and leaves them unchanged, whether the
\* resource call succeeds or fails.
C16_ChangedOnlyBySuccessfulRefresh ==
    [][\A t \in callers :
        /\ RefreshRaised(t) => <<access_token, token_expires_at>> = before[t]
        /\ AttemptWithValidToken(t)
           => /\ access_token' = access_token
              /\ token_expires_at' = token_expires_at
              /\ pc'[t] # "rf_post"
      ]_vars

\* C17: a read of access_token that failed with ZohoAuthError leaves the
\* instance in a state in which the next read refreshes again (no token, no
\* expiry, or an expiry that is not later than now: the clock never goes
\* back), and a read whose refresh succeeds returns the token it stored.
C17_NoStickyFailure ==
    \A t \in callers :
        /\ (pc[t] = "done" /\ op[t] = "access_token"
            /\ result[t].kind = "raise")
           => \/ access_token = None
              \/ access_token = Some("")
              \/ token_expires_at = None
              \/ token_expires_at[1] <= now
        /\ (pc[t] = "done" /\ op[t] = "access_token"
            /\ result[t].kind = "return" /\ wrote[t] = Both)
           => result[t].value = Some(auth_resp[t].data["access_token"])

=============================================================================
